---- MODULE Spec2Model ----
(***************************************************************************)
(* Chat-history handlers of serverless-iac:                                *)
(*   - src/.aws-sam/build/RagChatGetChatsFunction/app.py  (chat list)      *)
(*   - src/functions/rag-get-chat-detail/app.py           (GET / DELETE)   *)
(* The DynamoDB table is the variable store; every Lambda invocation is a  *)
(* slot of Procs.  A handler runs atomically up to its next store          *)
(* operation, so the only handler that takes two steps is a DELETE that    *)
(* found its chat: get_item, then update_item.                             *)
(*                                                                         *)
(* Python values.  A dict is a function whose DOMAIN is its key set, so    *)
(* `k in d` is k \in DOMAIN d.  A value that is not a dict is the record   *)
(* [pytype |-> ...].                                                       *)
(*                                                                         *)
(* Assumptions on the environment: the table is available (get_item and    *)
(* update_item do not raise); items and chats are created elsewhere, so    *)
(* the table changes only through update_item; requestContext, when        *)
(* present, is a dict; a method field, when present, is a str (possibly    *)
(* empty); sub, when present, is a str; every chat is a dict with id and   *)
(* title.  The Japanese log and placeholder texts are rendered in English. *)
(***************************************************************************)
EXTENDS Integers, Sequences, FiniteSets, TLC

VARIABLES store, pc, event, handler, locals, response, reads, writes

vars == <<store, pc, event, handler, locals, response, reads, writes>>

----------------------------------------------------------------------------
(* Bounds of the model *)

MaxInvocations == 2
MaxChats == 2
MaxMessages == 2

Procs == 1..MaxInvocations

----------------------------------------------------------------------------
(* Python values *)

EmptyDict == [k \in {} |-> ""]
PyNone == [pytype |-> "NoneType"]
PyStr == [pytype |-> "str"]

IsDict(x) == "pytype" \notin DOMAIN x

\* bool(x): an empty dict and None are falsy, a non-empty str is truthy
Truthy(x) == IF IsDict(x) THEN DOMAIN x # {} ELSE x.pytype # "NoneType"

\* d.get(k, default) on a dict
Get(d, k, default) == IF k \in DOMAIN d THEN d[k] ELSE default

\* {k: v} when cond, {} otherwise
Opt(cond, k, v) == IF cond THEN k :> v ELSE EmptyDict

\* outcomes of a call
Raise(e) == [exc |-> e]
Raised == Raise("AttributeError")
ReturnNone == [ret |-> "None"]
Return(v) == [value |-> v]
IsRaised(r) == "exc" \in DOMAIN r
IsValue(r) == "value" \in DOMAIN r

\* str(n) for the small n the model reaches
IntStr(n) == <<"0", "1", "2", "3", "4", "5", "6", "7", "8", "9">>[n + 1]

\* a Decimal of the table is [decimal |-> its value in tenths]; a Python int is
\* [int |-> n]
PyInt(n) == [int |-> n]
Decimal(tenths) == [decimal |-> tenths]

\* DecimalEncoder.default: a whole Decimal becomes an int, any other a float
DecimalEncoder(obj) ==
    IF "decimal" \in DOMAIN obj
    THEN IF obj.decimal % 10 = 0
         THEN [int |-> obj.decimal \div 10]
         ELSE [float |-> obj.decimal]
    ELSE obj

\* str.upper() on the method strings of the model
upper(s) ==
    CASE s \in {"GET", "get", "Get"} -> "GET"
      [] s \in {"DELETE", "delete", "Delete"} -> "DELETE"
      [] s \in {"OPTIONS", "options", "Options"} -> "OPTIONS"
      [] s \in {"PUT", "put"} -> "PUT"
      [] OTHER -> s

----------------------------------------------------------------------------
(* process_attachment *)

process_attachment(attachment) ==
    IF ~Truthy(attachment) THEN ReturnNone
    ELSE IF ~IsDict(attachment)
    \* attachment.get raises AttributeError in the try block and again in the
    \* except block, which therefore raises
    THEN Raised
    ELSE Return(
           [fileName |-> Get(attachment, "fileName", ""),
            fileType |-> Get(attachment, "fileType", ""),
            size |-> Get(attachment, "size", PyInt(0))]
           @@ Opt("s3Key" \in DOMAIN attachment /\ Get(attachment, "s3Key", "") # "",
                  "s3Key", Get(attachment, "s3Key", ""))
           @@ Opt("data" \in DOMAIN attachment /\ Get(attachment, "data", "") # "",
                  "data", Get(attachment, "data", ""))
           @@ Opt("displayUrl" \in DOMAIN attachment,
                  "displayUrl", Get(attachment, "displayUrl", ""))
           @@ Opt("note" \in DOMAIN attachment, "note", Get(attachment, "note", "")))

----------------------------------------------------------------------------
(* get_chat_messages *)

\* the dict built in the try block of the loop, before the attachment
processed_message_base(message) ==
    [id |-> Get(message, "id", ""),
     role |-> Get(message, "role", ""),
     content |-> Get(message, "content", "")]
    @@ Opt("mode" \in DOMAIN message, "mode", Get(message, "mode", ""))
    @@ Opt("model" \in DOMAIN message, "model", Get(message, "model", ""))

\* the dict appended by the except block of the loop
placeholder_message(message, processed_messages) ==
    [id |-> Get(message, "id", IntStr(Len(processed_messages))),
     role |-> Get(message, "role", "unknown"),
     content |-> Get(message, "content", "message processing error"),
     note |-> "message processing error"]

\* one iteration of `for message in target_messages`: the element appended,
\* or Raised when the except block itself raises
process_message(message, processed_messages) ==
    IF ~IsDict(message)
    \* message.get raises AttributeError in the try block; the except block
    \* calls message.get again (line 114) and raises out of the loop
    THEN Raised
    ELSE IF "attachment" \in DOMAIN message /\ Truthy(message.attachment)
    THEN LET processed_attachment == process_attachment(message.attachment)
         IN  IF IsRaised(processed_attachment)
             THEN Return(placeholder_message(message, processed_messages))
             ELSE IF IsValue(processed_attachment)
                     /\ Truthy(processed_attachment.value)
             THEN Return(processed_message_base(message)
                         @@ [attachment |-> processed_attachment.value])
             ELSE Return(processed_message_base(message))
    ELSE Return(processed_message_base(message))

RECURSIVE process_messages(_, _)
process_messages(target_messages, processed_messages) ==
    IF target_messages = <<>> THEN Return(processed_messages)
    ELSE LET r == process_message(Head(target_messages), processed_messages)
         IN  IF IsRaised(r) THEN Raised
             ELSE process_messages(Tail(target_messages),
                                   Append(processed_messages, r.value))

\* json.dumps(messages, cls=DecimalEncoder): the only Decimal of a processed
\* message is its attachment's size
json_message(m) ==
    IF "attachment" \in DOMAIN m
    THEN [m EXCEPT !.attachment =
            [@ EXCEPT !.size = DecimalEncoder(m.attachment.size)]]
    ELSE m

json_messages(messages) == [i \in DOMAIN messages |-> json_message(messages[i])]

----------------------------------------------------------------------------
(* The table *)

\* chat_table.get_item(Key={'userId': user_id})
get_item(table, user_id) ==
    IF user_id \in DOMAIN table
    THEN [Item |-> table[user_id], ResponseMetadata |-> "200"]
    ELSE [ResponseMetadata |-> "200"]

\* mutant of update_item: the item is replaced (put_item) instead of having
\* its chats attribute set
update_item_put(table, user_id, chats) ==
    (user_id :> [chats |-> chats]) @@ table

\* chat_table.update_item(Key={'userId': user_id},
\*     UpdateExpression='SET chats = :chats', ...): no ConditionExpression, and
\* an item that does not exist is created
update_item(table, user_id, chats) ==
    IF user_id \in DOMAIN table
    THEN [table EXCEPT ![user_id] = ("chats" :> chats) @@ table[user_id]]
    ELSE (user_id :> [userId |-> user_id, chats |-> chats]) @@ table

\* response.get('Item', {}).get('chats', [])
item_chats(resp) == Get(Get(resp, "Item", EmptyDict), "chats", <<>>)

\* chat.get('id') == chat_id
id_is(chat, chat_id) == "id" \in DOMAIN chat /\ chat.id = chat_id

\* the loop of get_chat_messages that stops at the first chat with the id:
\* that chat's messages, [] when it has none or no chat has the id
RECURSIVE target_messages(_, _)
target_messages(all_chats, chat_id) ==
    IF all_chats = <<>> THEN <<>>
    ELSE IF id_is(Head(all_chats), chat_id)
    THEN Get(Head(all_chats), "messages", <<>>)
    ELSE target_messages(Tail(all_chats), chat_id)

get_chat_messages(table, user_id, chat_id) ==
    LET all_chats == item_chats(get_item(table, user_id))
        msgs == target_messages(all_chats, chat_id)
    IN  IF msgs = <<>> THEN ReturnNone
        ELSE process_messages(msgs, <<>>)

\* mutant of updated_chats: the filter stops at the first chat with the id and
\* drops what follows it
RECURSIVE updated_chats_drop_rest(_, _)
updated_chats_drop_rest(all_chats, chat_id) ==
    IF all_chats = <<>> THEN <<>>
    ELSE IF id_is(Head(all_chats), chat_id) THEN <<>>
    ELSE <<Head(all_chats)>> \o updated_chats_drop_rest(Tail(all_chats), chat_id)

\* [chat for chat in all_chats if chat.get('id') != chat_id]
RECURSIVE updated_chats(_, _)
updated_chats(all_chats, chat_id) ==
    IF all_chats = <<>> THEN <<>>
    ELSE IF id_is(Head(all_chats), chat_id)
    THEN updated_chats(Tail(all_chats), chat_id)
    ELSE <<Head(all_chats)>> \o updated_chats(Tail(all_chats), chat_id)

\* delete_chat up to its update_item call: ReturnNone stands for `return
\* False`, a value for the list update_item is about to write
delete_chat_read(table, user_id, chat_id) ==
    LET resp == get_item(table, user_id)
    IN  IF "Item" \notin DOMAIN resp THEN ReturnNone
        ELSE LET all_chats == Get(resp.Item, "chats", <<>>)
                 updated == updated_chats(all_chats, chat_id)
             IN  IF Len(updated) = Len(all_chats) THEN ReturnNone
                 ELSE Return([all_chats |-> all_chats, updated_chats |-> updated])

----------------------------------------------------------------------------
(* The event *)

\* mutant of claims_sub: claims.get('sub', 'anonymous') instead of claims['sub']
claims_sub_default(ev) ==
    IF "requestContext" \notin DOMAIN ev THEN Raise("KeyError")
    ELSE IF "authorizer" \notin DOMAIN ev.requestContext THEN Raise("KeyError")
    ELSE LET authorizer == ev.requestContext.authorizer
         IN  IF ~IsDict(authorizer) THEN Raise("TypeError")
             ELSE IF "jwt" \notin DOMAIN authorizer THEN Raise("KeyError")
             ELSE IF "claims" \notin DOMAIN authorizer.jwt THEN Raise("KeyError")
             ELSE Return(Get(authorizer.jwt.claims, "sub", "anonymous"))

\* event['requestContext']['authorizer']['jwt']['claims']['sub']: the value,
\* KeyError for a missing key, TypeError for subscripting what is no dict
claims_sub(ev) ==
    IF "requestContext" \notin DOMAIN ev THEN Raise("KeyError")
    ELSE IF "authorizer" \notin DOMAIN ev.requestContext THEN Raise("KeyError")
    ELSE LET authorizer == ev.requestContext.authorizer
         IN  IF ~IsDict(authorizer) THEN Raise("TypeError")
             ELSE IF "jwt" \notin DOMAIN authorizer THEN Raise("KeyError")
             ELSE IF "claims" \notin DOMAIN authorizer.jwt THEN Raise("KeyError")
             ELSE IF "sub" \notin DOMAIN authorizer.jwt.claims
             THEN Raise("KeyError")
             ELSE Return(authorizer.jwt.claims.sub)

\* event['pathParameters']['chatId']
path_chat_id(ev) ==
    IF "pathParameters" \notin DOMAIN ev THEN Raise("KeyError")
    ELSE IF ~IsDict(ev.pathParameters) THEN Raise("TypeError")
    ELSE IF "chatId" \notin DOMAIN ev.pathParameters THEN Raise("KeyError")
    ELSE Return(ev.pathParameters.chatId)

\* the if/elif chain of lines 184-205: the branch is chosen by the presence
\* of the key, whatever its value; ReturnNone is http_method = None
detect_http_method(ev) ==
    IF "httpMethod" \in DOMAIN ev THEN Return(ev.httpMethod)
    ELSE IF "requestContext" \in DOMAIN ev
            /\ "httpMethod" \in DOMAIN ev.requestContext
    THEN Return(ev.requestContext.httpMethod)
    ELSE IF "requestContext" \in DOMAIN ev
            /\ "http" \in DOMAIN ev.requestContext
            /\ "method" \in DOMAIN ev.requestContext.http
    THEN Return(ev.requestContext.http.method)
    ELSE ReturnNone

\* mutant of http_method: the method is not upper-cased
http_method_no_upper(ev) ==
    LET m == detect_http_method(ev)
    IN  IF IsValue(m) /\ m.value # "" THEN m.value ELSE ""

\* lines 207-209: `if http_method: http_method = http_method.upper()`; the
\* result is "" when http_method is None or empty (both are falsy and equal
\* to no method name)
http_method(ev) ==
    LET m == detect_http_method(ev)
    IN  IF IsValue(m) /\ m.value # "" THEN upper(m.value) ELSE ""

----------------------------------------------------------------------------
(* Responses *)

cors_headers ==
    ("Content-Type" :> "application/json")
    @@ ("Access-Control-Allow-Origin" :> "*")
    @@ ("Access-Control-Allow-Headers" :> "Content-Type,Authorization")
    @@ ("Access-Control-Allow-Methods" :> "GET,DELETE,OPTIONS")

list_headers ==
    ("Content-Type" :> "application/json")
    @@ ("Access-Control-Allow-Origin" :> "*")
    @@ ("Access-Control-Allow-Headers" :> "Content-Type,Authorization")
    @@ ("Access-Control-Allow-Methods" :> "GET,OPTIONS")

error_headers ==
    ("Content-Type" :> "application/json")
    @@ ("Access-Control-Allow-Origin" :> "*")

\* a body is the JSON text's content: [text |-> ""] the empty body, [json |->
\* list] a dumped list, any other record a dumped dict
Response(status, headers, body) ==
    [statusCode |-> status, headers |-> headers, body |-> body]

NoResponse == EmptyDict
NoEvent == EmptyDict
NoLocals == EmptyDict

----------------------------------------------------------------------------
(* The handlers *)

\* the invocation of slot p returns resp after nreads get_item calls
Finish(p, resp, nreads) ==
    /\ pc' = [pc EXCEPT ![p] = "done"]
    /\ response' = [response EXCEPT ![p] = resp]
    /\ reads' = [reads EXCEPT ![p] = nreads]
    /\ UNCHANGED <<store, locals, writes>>

\* mutant of chat_list_for_sidebar: every element carries the first chat's title
chat_list_first_title(all_chats) ==
    [i \in DOMAIN all_chats |->
        [id |-> all_chats[i].id, title |-> all_chats[1].title]]

\* the sidebar list of RagChatGetChatsFunction: one {id, title} per chat
chat_list_for_sidebar(all_chats) ==
    [i \in DOMAIN all_chats |->
        [id |-> all_chats[i].id, title |-> all_chats[i].title]]

\* RagChatGetChatsFunction.lambda_handler
get_chats_lambda_handler(p, ev) ==
    /\ pc[p] = "idle"
    /\ event' = [event EXCEPT ![p] = ev]
    /\ handler' = [handler EXCEPT ![p] = "get_chats"]
    /\ LET user_id == claims_sub(ev)
       IN  IF IsRaised(user_id)
           THEN Finish(p, Response(500, error_headers,
                                   [error |-> "Internal server error"]), 0)
           ELSE Finish(p, Response(200, list_headers,
                    [json |-> chat_list_for_sidebar(
                                 item_chats(get_item(store, user_id.value)))]), 1)

\* the body of the 400 answered when no method was found
method_not_found_body(ev) ==
    [error |-> "HTTP method not found in request",
     debug |-> [eventKeys |-> DOMAIN ev]
               @@ Opt("requestContext" \in DOMAIN ev, "requestContextKeys",
                      DOMAIN Get(ev, "requestContext", EmptyDict))]

\* rag-get-chat-detail lambda_handler, up to its return or, for a DELETE
\* whose chat was found, up to delete_chat's update_item call
lambda_handler(p, ev) ==
    /\ pc[p] = "idle"
    /\ event' = [event EXCEPT ![p] = ev]
    /\ handler' = [handler EXCEPT ![p] = "chat_detail"]
    /\ LET method == http_method(ev)
           user_id == claims_sub(ev)
           chat_id == path_chat_id(ev)
           no_chat_id == Response(400, cors_headers,
                            [error |-> "Chat ID not found in path parameters"])
       IN  IF method = "OPTIONS"
           THEN Finish(p, Response(200, cors_headers, [text |-> ""]), 0)
           ELSE IF method = ""
           THEN Finish(p, Response(400, cors_headers, method_not_found_body(ev)), 0)
           ELSE IF IsRaised(user_id)
           THEN Finish(p, Response(401, cors_headers,
                                   [error |-> "Authentication failed"]), 0)
           ELSE IF method = "GET"
           THEN IF IsRaised(chat_id) THEN Finish(p, no_chat_id, 0)
                ELSE LET messages ==
                             get_chat_messages(store, user_id.value, chat_id.value)
                     IN  IF IsRaised(messages)
                         THEN Finish(p, Response(500, cors_headers,
                                        [error |-> "Internal server error"]), 1)
                         ELSE IF ~IsValue(messages)
                         THEN Finish(p, Response(404, cors_headers,
                                        [error |-> "Chat not found"]), 1)
                         ELSE Finish(p, Response(200, cors_headers,
                                        [json |-> json_messages(messages.value)]), 1)
           ELSE IF method = "DELETE"
           THEN IF IsRaised(chat_id) THEN Finish(p, no_chat_id, 0)
                ELSE LET found ==
                             delete_chat_read(store, user_id.value, chat_id.value)
                     IN  IF ~IsValue(found)
                         THEN Finish(p, Response(404, cors_headers,
                                 [error |-> "Chat not found or already deleted"]), 1)
                         ELSE /\ pc' = [pc EXCEPT ![p] = "update_item"]
                              /\ locals' = [locals EXCEPT ![p] =
                                    [user_id |-> user_id.value,
                                     chat_id |-> chat_id.value,
                                     all_chats |-> found.value.all_chats,
                                     updated_chats |-> found.value.updated_chats]]
                              /\ reads' = [reads EXCEPT ![p] = 1]
                              /\ UNCHANGED <<store, response, writes>>
           ELSE Finish(p, Response(405, cors_headers,
                                   [error |-> "Method not allowed", method |-> method]), 0)

\* mutant of delete_chat_update: the list written is filtered from the chats
\* stored now, not from the chats read earlier
delete_chat_update_fresh(p) ==
    /\ pc[p] = "update_item"
    /\ store' = update_item(store, locals[p].user_id,
                    updated_chats(item_chats(get_item(store, locals[p].user_id)),
                                  locals[p].chat_id))
    /\ writes' = [writes EXCEPT ![p] = @ + 1]
    /\ pc' = [pc EXCEPT ![p] = "done"]
    /\ response' = [response EXCEPT ![p] =
            Response(200, cors_headers,
                     [success |-> TRUE, message |-> "Chat deleted successfully"])]
    /\ UNCHANGED <<event, handler, locals, reads>>

\* the rest of a DELETE: delete_chat's update_item, `return True`, and the
\* handler's 200
delete_chat_update(p) ==
    /\ pc[p] = "update_item"
    /\ store' = update_item(store, locals[p].user_id, locals[p].updated_chats)
    /\ writes' = [writes EXCEPT ![p] = @ + 1]
    /\ pc' = [pc EXCEPT ![p] = "done"]
    /\ response' = [response EXCEPT ![p] =
            Response(200, cors_headers,
                     [success |-> TRUE, message |-> "Chat deleted successfully"])]
    /\ UNCHANGED <<event, handler, locals, reads>>

----------------------------------------------------------------------------
(* Inputs: users, chats, messages, events *)

Users == {"u1", "u2"}
ChatIds == {"c1", "c2"}
Titles == {"T1", "T2"}

AttFull ==
    [fileName |-> "a.png", fileType |-> "image/png", size |-> Decimal(20),
     s3Key |-> "uploads/a.png", data |-> "QUJD", displayUrl |-> "blob:1",
     note |-> "n"]
AttFraction == [fileName |-> "b.pdf", size |-> Decimal(15), s3Key |-> "", data |-> ""]

MsgPlain == [id |-> "m1", role |-> "user", content |-> "hi"]
MsgModel ==
    [id |-> "m2", role |-> "assistant", content |-> "yo", mode |-> "rag",
     model |-> "nova"]
MsgFile == [id |-> "m3", role |-> "user", content |-> "see", attachment |-> AttFull]
MsgFraction == [id |-> "m4", role |-> "user", attachment |-> AttFraction]
MsgEmptyAtt ==
    [id |-> "m5", role |-> "user", content |-> "x", attachment |-> EmptyDict]
\* an attachment that is a str, not a dict
MsgBadAtt == [id |-> "m6", role |-> "user", content |-> "x", attachment |-> PyStr]
MsgBadAttNoId == [content |-> "y", attachment |-> PyStr]
\* a list element that is a str, not a dict
MsgNotDict == PyStr

MessagePool ==
    {MsgPlain, MsgModel, MsgFile, MsgFraction, MsgEmptyAtt, MsgBadAtt,
     MsgBadAttNoId, MsgNotDict}

SeqsUpTo(S, n) == UNION {[1..k -> S] : k \in 0..n}

Chat(id, title, messages) == [id |-> id, title |-> title, messages |-> messages]

Item(user_id, chats) == [userId |-> user_id, chats |-> chats]

\* the items a user may have: none, one without the chats attribute, one per
\* chat list
UserItems(user_id, chatSeqs) ==
    {EmptyDict, [userId |-> user_id]} \cup {Item(user_id, cs) : cs \in chatSeqs}

\* the table holding item1 for u1 and item2 for u2 (EmptyDict: no item)
Table(item1, item2) ==
    Opt(item1 # EmptyDict, "u1", item1) @@ Opt(item2 # EmptyDict, "u2", item2)

Absent == "<absent>"
AbsentKey == [absent |-> TRUE]

AuthOk(user_id) == [jwt |-> [claims |-> [sub |-> user_id]]]
AuthNoSub == [jwt |-> [claims |-> [iss |-> "idp"]]]
AuthNoClaims == [jwt |-> [scopes |-> "none"]]

\* the event with the given fields; Absent / AbsentKey leave a key out
MkEvent(top, rcMethod, http, authorizer, path, resource, rcPresent) ==
    LET rc == Opt(rcMethod # Absent, "httpMethod", rcMethod)
              @@ Opt(http # AbsentKey, "http", http)
              @@ Opt(authorizer # AbsentKey, "authorizer", authorizer)
    IN  Opt(top # Absent, "httpMethod", top)
        @@ Opt(rcPresent \/ rc # EmptyDict, "requestContext", rc)
        @@ Opt(path # AbsentKey, "pathParameters", path)
        @@ Opt(resource, "resource", "/chats/{chatId}")

\* an HTTP API (payload 2.0) event
HttpApiEvent(method, authorizer, path) ==
    MkEvent(Absent, Absent, [method |-> method], authorizer, path, FALSE, TRUE)

Request(method, user_id, chat_id) ==
    HttpApiEvent(method, AuthOk(user_id), [chatId |-> chat_id])

IdleInit ==
    /\ pc = [p \in Procs |-> "idle"]
    /\ event = [p \in Procs |-> NoEvent]
    /\ handler = [p \in Procs |-> "none"]
    /\ locals = [p \in Procs |-> NoLocals]
    /\ response = [p \in Procs |-> NoResponse]
    /\ reads = [p \in Procs |-> 0]
    /\ writes = [p \in Procs |-> 0]

----------------------------------------------------------------------------
(* Spec: overlapping invocations of both handlers on one table *)

PlainChats == {Chat(c, t, <<MsgPlain>>) : c \in ChatIds, t \in Titles}

Init ==
    /\ \E item1 \in UserItems("u1", SeqsUpTo(PlainChats, MaxChats)),
          item2 \in {EmptyDict, Item("u2", <<Chat("c1", "T1", <<MsgPlain>>)>>)} :
          store = Table(item1, item2)
    /\ IdleInit

DetailEvents ==
    {Request("DELETE", "u1", c) : c \in ChatIds}
    \cup {Request("DELETE", "u2", "c1"),
          Request("GET", "u1", "c1"),
          Request("PUT", "u1", "c1"),
          HttpApiEvent("OPTIONS", AbsentKey, AbsentKey),
          HttpApiEvent("DELETE", AbsentKey, [chatId |-> "c1"]),
          HttpApiEvent("DELETE", AuthOk("u1"), AbsentKey),
          MkEvent(Absent, Absent, AbsentKey, AuthOk("u1"), [chatId |-> "c1"],
                  FALSE, TRUE)}

ListEvents == {HttpApiEvent("GET", AuthOk("u1"), AbsentKey)}

Next ==
    \E p \in Procs :
        \/ \E ev \in DetailEvents : lambda_handler(p, ev)
        \/ \E ev \in ListEvents : get_chats_lambda_handler(p, ev)
        \/ delete_chat_update(p)

Spec == Init /\ [][Next]_vars

----------------------------------------------------------------------------
(* SpecMethod: one invocation, over the shapes of the event *)

MethodValues == {"", "GET", "delete", "OPTIONS", "Options", "PUT"}

MethodEvents ==
    {MkEvent(top, rcMethod, http, authorizer, path, resource, TRUE) :
        top \in {Absent} \cup MethodValues,
        rcMethod \in {Absent} \cup MethodValues,
        http \in {AbsentKey, EmptyDict} \cup {[method |-> m] : m \in MethodValues},
        authorizer \in {AbsentKey, PyNone, AuthNoSub, AuthNoClaims, AuthOk("u1")},
        path \in {AbsentKey, PyNone, EmptyDict, [chatId |-> "c1"], [chatId |-> "c2"]},
        resource \in BOOLEAN}
    \cup {MkEvent(top, Absent, AbsentKey, AbsentKey, path, resource, FALSE) :
        top \in {Absent} \cup MethodValues,
        path \in {AbsentKey, [chatId |-> "c1"]},
        resource \in BOOLEAN}

MethodTables ==
    {Table(EmptyDict, EmptyDict),
     Table(Item("u1", <<Chat("c1", "T1", <<MsgPlain>>)>>), EmptyDict)}

InitMethod == store \in MethodTables /\ IdleInit

AuthEvents ==
    {MkEvent(Absent, Absent, [method |-> "GET"], authorizer, AbsentKey, FALSE, TRUE) :
        authorizer \in {AbsentKey, PyNone, AuthNoSub, AuthNoClaims, AuthOk("u1")}}
    \cup {EmptyDict}

NextMethod ==
    \/ pc[1] = "idle" /\ \E ev \in MethodEvents : lambda_handler(1, ev)
    \/ pc[1] = "idle" /\ \E ev \in AuthEvents : get_chats_lambda_handler(1, ev)
    \/ delete_chat_update(1)

SpecMethod == InitMethod /\ [][NextMethod]_vars

----------------------------------------------------------------------------
(* SpecMessages: one invocation, over the chats and messages of the item *)

\* chats of the item: c1 carries the messages under test, c2 is plain
MessageChats(messages) ==
    {Chat("c1", t, messages) : t \in Titles} \cup {Chat("c2", "T2", <<MsgPlain>>)}

InitMessages ==
    /\ \E messages \in SeqsUpTo(MessagePool, MaxMessages) :
         \E item1 \in UserItems("u1", SeqsUpTo(MessageChats(messages), MaxChats)) :
            store = Table(item1, EmptyDict)
    /\ IdleInit

MessageEvents ==
    {Request(m, "u1", c) : m \in {"GET", "DELETE"}, c \in ChatIds}

NextMessages ==
    \/ pc[1] = "idle" /\ \E ev \in MessageEvents : lambda_handler(1, ev)
    \/ pc[1] = "idle" /\ \E ev \in ListEvents : get_chats_lambda_handler(1, ev)
    \/ delete_chat_update(1)

SpecMessages == InitMessages /\ [][NextMessages]_vars

----------------------------------------------------------------------------
(* Vocabulary of the properties *)

Done(p) == pc[p] = "done"
Status(p) == response[p].statusCode

\* slot p returns in this step / issues its update_item in this step
Returns(p) == pc[p] # "done" /\ pc'[p] = "done"
Writes(p) == pc[p] = "update_item" /\ pc'[p] = "done"

\* the chats stored for a user: <<>> when there is no item or no chats field
StoredChats(table, user_id) ==
    IF user_id \in DOMAIN table /\ "chats" \in DOMAIN table[user_id]
    THEN table[user_id].chats
    ELSE <<>>

Ids(chats) == {chats[i].id : i \in DOMAIN chats}
UniqueIds(chats) ==
    \A i, j \in DOMAIN chats : chats[i].id = chats[j].id => i = j
RemoveAt(seq, i) == SubSeq(seq, 1, i - 1) \o SubSeq(seq, i + 1, Len(seq))

\* the caller's verified identity is at requestContext.authorizer.jwt.claims.sub
HasIdentity(ev) ==
    /\ "requestContext" \in DOMAIN ev
    /\ "authorizer" \in DOMAIN ev.requestContext
    /\ IsDict(ev.requestContext.authorizer)
    /\ "jwt" \in DOMAIN ev.requestContext.authorizer
    /\ "claims" \in DOMAIN ev.requestContext.authorizer.jwt
    /\ "sub" \in DOMAIN ev.requestContext.authorizer.jwt.claims
Caller(ev) == ev.requestContext.authorizer.jwt.claims.sub

HasChatId(ev) ==
    /\ "pathParameters" \in DOMAIN ev
    /\ IsDict(ev.pathParameters)
    /\ "chatId" \in DOMAIN ev.pathParameters
ChatIdOf(ev) == ev.pathParameters.chatId

\* the three probed locations, in priority order; Absent where the key is missing
Probes(ev) ==
    <<Get(ev, "httpMethod", Absent),
      Get(Get(ev, "requestContext", EmptyDict), "httpMethod", Absent),
      Get(Get(Get(ev, "requestContext", EmptyDict), "http", EmptyDict),
          "method", Absent)>>

UpperCase(s) ==
    CASE s \in {"get", "GET"} -> "GET"
      [] s \in {"delete", "Delete", "DELETE"} -> "DELETE"
      [] s \in {"options", "Options", "OPTIONS"} -> "OPTIONS"
      [] OTHER -> s

\* the method the handler resolves: the value at the first location whose key
\* is present, upper-cased; "" when no key is present
ResolvedMethod(ev) ==
    LET ps == Probes(ev)
    IN  IF ps[1] # Absent THEN UpperCase(ps[1])
        ELSE IF ps[2] # Absent THEN UpperCase(ps[2])
        ELSE IF ps[3] # Absent THEN UpperCase(ps[3])
        ELSE ""

\* an authenticated DELETE / GET call with a chatId
IsCall(p, method) ==
    /\ handler[p] = "chat_detail"
    /\ ResolvedMethod(event[p]) = method
    /\ HasIdentity(event[p])
    /\ HasChatId(event[p])

----------------------------------------------------------------------------
(* C1 *)

\* C1: an authenticated DELETE with a chatId, on a record whose chat ids are
\* unique and that no other write changed between the call's read and its
\* write: when a chat has the id, the stored chats become the original
\* sequence with exactly that element removed and the answer is 200 with
\* success true; when no chat has the id, or the user has no record, the
\* call writes nothing and answers 404.
C1_DeleteContract ==
    [][\A p \in Procs :
        LET ev == event'[p]
            before == StoredChats(store, Caller(ev))
            present == ChatIdOf(ev) \in Ids(before)
        IN  /\ (pc[p] = "idle" /\ pc'[p] # "idle" /\ IsCall(p, "DELETE")')
                => /\ store' = store
                   /\ present => pc'[p] = "update_item"
                   /\ ~present => /\ pc'[p] = "done"
                                  /\ response'[p].statusCode = 404
                                  /\ writes'[p] = 0
            /\ (Writes(p) /\ before = locals[p].all_chats /\ UniqueIds(before))
                => /\ IsCall(p, "DELETE")
                   /\ \E i \in DOMAIN before :
                        /\ before[i].id = ChatIdOf(ev)
                        /\ StoredChats(store', Caller(ev)) = RemoveAt(before, i)
                   /\ Len(StoredChats(store', Caller(ev))) = Len(before) - 1
                   /\ response'[p].statusCode = 200
                   /\ response'[p].body.success = TRUE
                   /\ writes'[p] = 1]_vars

\* a DELETE removed the first of two chats with distinct ids and answered 200
C1_Witness ==
    \E p \in Procs :
        /\ Done(p) /\ IsCall(p, "DELETE") /\ Status(p) = 200
        /\ Len(locals[p].all_chats) = 2
        /\ UniqueIds(locals[p].all_chats)
        /\ locals[p].all_chats[1].id = ChatIdOf(event[p])
        /\ StoredChats(store, Caller(event[p])) = <<locals[p].all_chats[2]>>

----------------------------------------------------------------------------
(* C2 *)

\* C2: no chat is ever created here, so at most one DELETE invocation for a
\* given (user, chatId) returns 200: a second DELETE of the same chatId
\* returns 404.
C2_AtMostOneSuccess ==
    \A p, q \in Procs :
        (/\ p # q
         /\ Done(p) /\ IsCall(p, "DELETE") /\ Status(p) = 200
         /\ Done(q) /\ IsCall(q, "DELETE")
         /\ Caller(event[q]) = Caller(event[p])
         /\ ChatIdOf(event[q]) = ChatIdOf(event[p]))
        => Status(q) = 404

----------------------------------------------------------------------------
(* C9 *)

\* C9: lost update.  When a DELETE writes after another DELETE of the same
\* user, for a different chat, has answered 200, and the writer's own read
\* still held that other chat, the write puts the other chat back: both calls
\* answer 200 and the stored chats contain a chat whose deletion was reported.
C9_LostUpdate ==
    [][\A p, q \in Procs :
        (/\ p # q
         /\ Writes(p)
         /\ Done(q) /\ IsCall(q, "DELETE") /\ Status(q) = 200
         /\ Caller(event[q]) = locals[p].user_id
         /\ ChatIdOf(event[q]) # locals[p].chat_id
         /\ ChatIdOf(event[q]) \in Ids(locals[p].all_chats))
        => /\ response'[p].statusCode = 200
           /\ ChatIdOf(event[q]) \in Ids(StoredChats(store', locals[p].user_id))]_vars

\* two DELETEs of one user for different chats both answered 200 and one of
\* the two chats is still stored
C9_Witness ==
    \E p, q \in Procs :
        /\ p # q
        /\ Done(p) /\ IsCall(p, "DELETE") /\ Status(p) = 200
        /\ Done(q) /\ IsCall(q, "DELETE") /\ Status(q) = 200
        /\ Caller(event[q]) = Caller(event[p])
        /\ ChatIdOf(event[q]) # ChatIdOf(event[p])
        /\ ChatIdOf(event[q]) \in Ids(StoredChats(store, Caller(event[p])))

----------------------------------------------------------------------------
(* C10 *)

\* C10: the table changes only in the update_item step of a DELETE that then
\* returns 200, and only in the chats field of the caller's own item: no item
\* appears or disappears, no other field and no other user's item changes; the
\* list handler and GET never write; an invocation that returns 400, 401, 404
\* or 405 leaves the table as it was.
C10_Frame ==
    [][/\ store' # store =>
            \E p \in Procs :
                /\ Writes(p)
                /\ IsCall(p, "DELETE")
                /\ response'[p].statusCode = 200
                /\ DOMAIN store' = DOMAIN store
                /\ \A u \in DOMAIN store :
                        u # Caller(event[p]) => store'[u] = store[u]
                /\ LET u == Caller(event[p])
                   IN  /\ u \in DOMAIN store
                       /\ DOMAIN store'[u] = DOMAIN store[u] \cup {"chats"}
                       /\ \A k \in DOMAIN store[u] \ {"chats"} :
                              store'[u][k] = store[u][k]
       /\ \A p \in Procs :
            /\ (handler'[p] = "get_chats" \/ ResolvedMethod(event'[p]) # "DELETE")
                => writes'[p] = 0
            /\ (Returns(p) /\ response'[p].statusCode \in {400, 401, 404, 405})
                => store' = store /\ writes'[p] = 0]_vars

\* a DELETE of u1 wrote while u2 has an item, and a rejected call returned
C10_Witness ==
    \E p, q \in Procs :
        /\ Done(p) /\ IsCall(p, "DELETE") /\ writes[p] = 1
        /\ Caller(event[p]) = "u1"
        /\ "u2" \in DOMAIN store
        /\ Done(q) /\ Status(q) \in {400, 401, 404, 405}

----------------------------------------------------------------------------
(* C3, C4, C7: under SpecMessages *)

\* the first chat with the id, and its messages
SourceChat(chats, id) ==
    chats[CHOOSE i \in DOMAIN chats :
            chats[i].id = id /\ \A j \in 1..(i - 1) : chats[j].id # id]
SourceMessages(chats, id) == Get(SourceChat(chats, id), "messages", <<>>)

\* C3: an authenticated GET with a chatId answers 404 when no chat of the
\* user's record has the id (or there is no record), and, when a chat has it,
\* 200 with one element per message of that chat, in order, also when the
\* chat has no messages.
C3_GetContract ==
    \A p \in Procs :
        (Done(p) /\ IsCall(p, "GET")) =>
            LET chats == StoredChats(store, Caller(event[p]))
                id == ChatIdOf(event[p])
            IN  IF id \notin Ids(chats) THEN Status(p) = 404
                ELSE /\ Status(p) = 200
                     /\ "json" \in DOMAIN response[p].body
                     /\ Len(response[p].body.json) = Len(SourceMessages(chats, id))
                     /\ \A i \in DOMAIN SourceMessages(chats, id) :
                          LET m == SourceMessages(chats, id)[i]
                          IN  (IsDict(m) /\ "id" \in DOMAIN m)
                                  => response[p].body.json[i].id = m.id

\* C4: the list handler, called with a verified identity, answers 200 with
\* one {id, title} per chat of the caller's record, in stored order, each
\* equal to the id and title of the chat at its position; with no record or
\* no chats the body is the empty list.
C4_ChatList ==
    \A p \in Procs :
        (Done(p) /\ handler[p] = "get_chats" /\ HasIdentity(event[p])) =>
            LET chats == StoredChats(store, Caller(event[p]))
            IN  /\ Status(p) = 200
                /\ "json" \in DOMAIN response[p].body
                /\ Len(response[p].body.json) = Len(chats)
                /\ \A i \in DOMAIN chats :
                      response[p].body.json[i]
                          = [id |-> chats[i].id, title |-> chats[i].title]

\* the list of a record with two chats of different titles was returned
C4_Witness ==
    \E p \in Procs :
        /\ Done(p) /\ handler[p] = "get_chats" /\ HasIdentity(event[p])
        /\ Status(p) = 200
        /\ Len(StoredChats(store, Caller(event[p]))) = 2
        /\ response[p].body.json[1].title # response[p].body.json[2].title

\* sanitizing the message raises: it is no dict, or its attachment is a
\* truthy value that is no dict
FailsSanitizing(m) ==
    \/ ~IsDict(m)
    \/ "attachment" \in DOMAIN m /\ Truthy(m.attachment) /\ ~IsDict(m.attachment)

\* C7: a GET of a found chat in which sanitizing some message fails still
\* answers 200 with one element per message, in order; a failing message is
\* replaced by a placeholder with its id (or its position), its role (or
\* "unknown") and a note, and every other message is sanitized normally.
C7_FaultIsolation ==
    \A p \in Procs :
        LET chats == StoredChats(store, Caller(event[p]))
            id == ChatIdOf(event[p])
            msgs == SourceMessages(chats, id)
            out == response[p].body.json
        IN  (/\ Done(p) /\ IsCall(p, "GET")
             /\ id \in Ids(chats)
             /\ \E i \in DOMAIN msgs : FailsSanitizing(msgs[i]))
            => /\ Status(p) = 200
               /\ "json" \in DOMAIN response[p].body
               /\ Len(out) = Len(msgs)
               /\ \A i \in DOMAIN msgs :
                    IF FailsSanitizing(msgs[i])
                    THEN /\ "note" \in DOMAIN out[i]
                         /\ out[i].id = (IF IsDict(msgs[i]) /\ "id" \in DOMAIN msgs[i]
                                          THEN msgs[i].id ELSE IntStr(i - 1))
                         /\ out[i].role = (IF IsDict(msgs[i]) /\ "role" \in DOMAIN msgs[i]
                                            THEN msgs[i].role ELSE "unknown")
                    ELSE /\ "note" \notin DOMAIN out[i]
                         /\ out[i].id = Get(msgs[i], "id", "")

----------------------------------------------------------------------------
(* C5, C6, C8: under SpecMethod *)

\* C5: an invocation of the detail handler whose method resolves to OPTIONS,
\* in any letter case and at any of the three locations, returns 200 with an
\* empty body without reading or writing the table, with or without an
\* authorization context and a chatId.
C5_Preflight ==
    \A p \in Procs :
        (handler[p] = "chat_detail" /\ ResolvedMethod(event[p]) = "OPTIONS") =>
            /\ Done(p)
            /\ Status(p) = 200
            /\ response[p].body = [text |-> ""]
            /\ reads[p] = 0
            /\ writes[p] = 0

\* a mixed-case OPTIONS found at requestContext.http.method, with neither an
\* identity nor a chatId, was answered
C5_Witness ==
    \E p \in Procs :
        /\ Done(p) /\ handler[p] = "chat_detail"
        /\ Probes(event[p]) = <<Absent, Absent, "Options">>
        /\ ~HasIdentity(event[p]) /\ ~HasChatId(event[p])
        /\ Status(p) = 200

\* C6: when the method resolves to anything but OPTIONS and the identity
\* claim is missing or malformed, the answer is 401 and the table is neither
\* read nor written: never 400, 404 or 405, whatever the chatId and the
\* method.
C6_AuthFirst ==
    \A p \in Procs :
        (/\ handler[p] = "chat_detail"
         /\ ResolvedMethod(event[p]) \notin {"", "OPTIONS"}
         /\ ~HasIdentity(event[p]))
        => /\ Done(p)
           /\ Status(p) = 401
           /\ reads[p] = 0
           /\ writes[p] = 0

\* an unsupported method without a chatId and with authorizer = None was
\* answered 401
C6_Witness ==
    \E p \in Procs :
        /\ Done(p) /\ handler[p] = "chat_detail"
        /\ ResolvedMethod(event[p]) = "PUT"
        /\ "requestContext" \in DOMAIN event[p]
        /\ Get(event[p].requestContext, "authorizer", EmptyDict) = PyNone
        /\ ~HasChatId(event[p])
        /\ Status(p) = 401

\* the first location that yields a value (a present, non-empty method),
\* upper-cased; "" when none does
FirstYield(ev) ==
    LET ps == Probes(ev)
        yields(i) == ps[i] # Absent /\ ps[i] # ""
    IN  IF yields(1) THEN UpperCase(ps[1])
        ELSE IF yields(2) THEN UpperCase(ps[2])
        ELSE IF yields(3) THEN UpperCase(ps[3])
        ELSE ""

\* C8: the method dispatched on is the upper-cased value of the first of the
\* three locations that yields a value, a lower-priority location being used
\* whenever the higher-priority ones yield none; when none yields a value the
\* answer is 400 with the event's top-level keys and the table is untouched.
C8_MethodDetection ==
    \A p \in Procs :
        handler[p] = "chat_detail" =>
            LET ev == event[p]
                m == FirstYield(ev)
            IN  /\ m = "" =>
                     /\ Done(p) /\ Status(p) = 400
                     /\ "debug" \in DOMAIN response[p].body
                     /\ response[p].body.debug.eventKeys = DOMAIN ev
                     /\ reads[p] = 0 /\ writes[p] = 0
                /\ m # "" =>
                     /\ Done(p) => "debug" \notin DOMAIN response[p].body
                     /\ m = "OPTIONS" =>
                            Done(p) /\ Status(p) = 200
                            /\ response[p].body = [text |-> ""]
                     /\ (m # "OPTIONS" /\ ~HasIdentity(ev)) =>
                            Done(p) /\ Status(p) = 401
                     /\ (m \notin {"GET", "DELETE", "OPTIONS"} /\ HasIdentity(ev)) =>
                            Done(p) /\ Status(p) = 405 /\ response[p].body.method = m
                     /\ (m \in {"GET", "DELETE"} /\ HasIdentity(ev) /\ ~HasChatId(ev)) =>
                            Done(p) /\ Status(p) = 400
                     /\ (m = "GET" /\ HasIdentity(ev) /\ HasChatId(ev)) =>
                            Done(p) /\ Status(p) \in {200, 404, 500}
                     /\ (m = "DELETE" /\ HasIdentity(ev) /\ HasChatId(ev)) =>
                            (Done(p) => Status(p) \in {200, 404})

====
